---- MODULE Spec2Model ----
(***************************************************************************)
(* Model of STL-rs:                                                        *)
(*   src/src/semantics.rs     - type tag (BaseType::TYPE) and the range    *)
(*                              primitives raw_drop / raw_move / raw_copy  *)
(*                              / raw_fill of the function tables          *)
(*   src/src/string/utf16.rs  - CxxUtf16String, the small-buffer UTF-16    *)
(*                              string on top of CSTL_u16string_*          *)
(* Four specifications share the variables:                                 *)
(*   SpecSem  the range primitives over a small memory of slots            *)
(*   SpecTag  the tag encoding of two types                                *)
(*   SpecStr  one CxxUtf16String and its allocator                         *)
(*   SpecClone  a CxxUtf16String, its clone and their allocator             *)
(***************************************************************************)
EXTENDS Integers, Sequences, FiniteSets, TLC

VARIABLES
    mem,        \* SpecSem: slot address -> value of the slot, or Uninit
    pre,        \* SpecSem: mem as it was when the last call was made
    call,       \* SpecSem: the last call: op, first, last, dest, outcome
    dropLog,    \* SpecSem: addresses whose destructor the last call ran, in order
    types,      \* SpecTag: two types, each [size, align] as mem::size_of / align_of
    tags,       \* SpecTag: their TYPE constants, NotEvaluated until evaluated
    val,        \* SpecStr: CSTL_UTF16StringVal: bx (buf | ptr), size, res
    heap,       \* SpecStr: live allocations of the allocator: id -> buffer
    last,       \* SpecStr: the last operation on the string and its argument
    before,     \* SpecStr: length, capacity and storage before the last operation
    saved,      \* SpecStr: the content a clear() removed, kept for the push after it
    hist,       \* SpecStr: the first two operations of the string's life
    reqs,       \* SpecStr: allocator requests made by the last operation
    trans,      \* SpecStr: buf -> ptr transitions made by the last operation
    twin,       \* SpecClone: the val of the string clone() returned, NoTwin before
    live,       \* SpecClone: the strings not dropped yet, of "orig" and "twin"
    actor       \* SpecClone: the string the last operation was called on

vars == <<mem, pre, call, dropLog, types, tags, val, heap, last, before, saved,
          hist, reqs, trans, twin, live, actor>>
semVars == <<mem, pre, call, dropLog>>
tagVars == <<types, tags>>
strVars == <<val, heap, last, before, saved, hist, reqs, trans, twin, live, actor>>

(***************************************************************************)
(* Bounds                                                                  *)
(***************************************************************************)
MemSize == 4        \* slots of the memory the range primitives work on
MaxVal == 2         \* element values are 0..MaxVal
WordBits == 6       \* width of usize in bits (scaled down from 64)

USIZE_MOD == 2 ^ WordBits
ISIZE_MAX == 2 ^ (WordBits - 1) - 1

Max(a, b) == IF a >= b THEN a ELSE b

(***************************************************************************)
(* semantics.rs: the range primitives                                      *)
(***************************************************************************)
Uninit == -1                    \* a slot holding no live value
Vals == 0..MaxVal
DefaultVal == 0                 \* <T as Default>::default()
Addr == 0..(MemSize - 1)
Ptr == 0..MemSize               \* one past the end is a valid `last`

\* Clone::clone of an element: an equal, independent value
CloneOf(v) == v

\* ptr.write(v): overwrites the slot without dropping what was there
WriteSlot(m, a, v) == [m EXCEPT ![a] = v]

\* the distance between the two pointers, whichever comes first
OffsetFromUnsigned(lastp, firstp) == IF lastp >= firstp THEN lastp - firstp ELSE firstp - lastp

\* last.offset_from(first)
OffsetFrom(lastp, firstp) == lastp - firstp

\* `for i in 0..n`: the indices visited, none when n <= 0
LoopRange(n) == 0..(n - 1)

\* raw_move that reads the source without taking it: the source keeps its value
RECURSIVE MoveLoopNoTake(_, _, _, _, _)
MoveLoopNoTake(m, firstp, dest, i, n) ==
    IF i >= n THEN m
    ELSE MoveLoopNoTake(WriteSlot(m, dest + i, m[firstp + i]), firstp, dest, i + 1, n)

\* MoveType::raw_move: dest.offset(i).write(mem::take(first.offset(i).as_mut()))
RECURSIVE MoveLoop(_, _, _, _, _)
MoveLoop(m, firstp, dest, i, n) ==
    IF i >= n THEN m
    ELSE LET taken == m[firstp + i]
             m1 == WriteSlot(m, firstp + i, DefaultVal)
             m2 == WriteSlot(m1, dest + i, taken)
         IN  MoveLoop(m2, firstp, dest, i + 1, n)

\* a copy loop that takes the source the way MoveType::raw_move does
RECURSIVE CopyLoopTaking(_, _, _, _, _)
CopyLoopTaking(m, firstp, dest, i, n) ==
    IF i >= n THEN m
    ELSE CopyLoopTaking(WriteSlot(WriteSlot(m, firstp + i, DefaultVal), dest + i, m[firstp + i]),
                        firstp, dest, i + 1, n)

\* a copy loop that reads `first` without the offset
RECURSIVE CopyLoopNoSourceOffset(_, _, _, _, _)
CopyLoopNoSourceOffset(m, firstp, dest, i, n) ==
    IF i >= n THEN m
    ELSE CopyLoopNoSourceOffset(WriteSlot(m, dest + i, CloneOf(m[firstp])),
                                firstp, dest, i + 1, n)

\* raw_copy and CopyOnlyType::raw_move:
\* dest.offset(i).write(first.offset(i).as_ref().clone())
RECURSIVE CopyLoop(_, _, _, _, _)
CopyLoop(m, firstp, dest, i, n) ==
    IF i >= n THEN m
    ELSE CopyLoop(WriteSlot(m, dest + i, CloneOf(m[firstp + i])),
                  firstp, dest, i + 1, n)

\* raw_fill: first.offset(i).write(value.as_ref().clone())
RECURSIVE FillLoop(_, _, _, _, _)
FillLoop(m, firstp, value, i, n) ==
    IF i >= n THEN m
    ELSE FillLoop(WriteSlot(m, firstp + i, CloneOf(m[value])),
                  firstp, value, i + 1, n)

\* drop glue that runs from the last element down to the first
DropOrderReversed(firstp, len) == [i \in 1..len |-> firstp + (len - i)]

\* slice_from_raw_parts_mut(first, len).drop_in_place(): the slice's drop glue
\* runs the destructor of element 0, 1, ..., len-1
DropOrder(firstp, len) == [i \in 1..len |-> firstp + (i - 1)]

RECURSIVE DropSlots(_, _)
DropSlots(m, order) ==
    IF order = <<>> THEN m
    ELSE DropSlots(WriteSlot(m, Head(order), Uninit), Tail(order))

\* every slot of [firstp, firstp+n) holds a live value
Live(m, firstp, n) == \A i \in LoopRange(n) : firstp + i \in Addr /\ m[firstp + i] # Uninit

\* [dest, dest+n) lies inside the memory
InMem(dest, n) == \A i \in LoopRange(n) : dest + i \in Addr

Disjoint(firstp, dest, n) == dest + n <= firstp \/ firstp + n <= dest

NoCall == [op |-> "none", first |-> 0, last |-> 0, dest |-> 0, outcome |-> "return"]

SemInit ==
    /\ mem \in [Addr -> Vals \cup {Uninit}]
    /\ pre = mem
    /\ call = NoCall
    /\ dropLog = <<>>
    \* the other specifications' variables stay idle
    /\ types = <<>> /\ tags = <<>>
    /\ val = <<>> /\ heap = <<>> /\ last = <<>> /\ before = <<>>
    /\ saved = <<>> /\ hist = <<>> /\ reqs = 0 /\ trans = 0
    /\ twin = <<>> /\ live = {} /\ actor = "none"

\* the foreign caller has not called through the tables yet: a behaviour is
\* one call on an arbitrary memory, so every call on every memory is covered
Running == call.op = "none"

\* raw_drop that takes an inverted range for an empty one and returns
RawDropUnchecked(firstp, lastp) ==
    /\ Live(mem, firstp, OffsetFrom(lastp, firstp))
    /\ pre' = mem
    /\ call' = [op |-> "raw_drop", first |-> firstp, last |-> lastp,
                dest |-> 0, outcome |-> "return"]
    /\ dropLog' = DropOrder(firstp, Max(OffsetFrom(lastp, firstp), 0))
    /\ mem' = DropSlots(mem, DropOrder(firstp, Max(OffsetFrom(lastp, firstp), 0)))

\* BaseType::raw_drop
RawDrop(firstp, lastp) ==
    /\ Live(mem, firstp, OffsetFrom(lastp, firstp))
    /\ pre' = mem
    /\ IF OffsetFrom(lastp, firstp) < 0
       THEN \* try_into::<usize>() fails, expect() panics, and a panic
            \* leaving an extern "C" fn aborts the process
            /\ call' = [op |-> "raw_drop", first |-> firstp, last |-> lastp,
                        dest |-> 0, outcome |-> "abort"]
            /\ dropLog' = <<>>
            /\ mem' = mem
       ELSE LET len == OffsetFrom(lastp, firstp)
            IN  /\ call' = [op |-> "raw_drop", first |-> firstp, last |-> lastp,
                            dest |-> 0, outcome |-> "return"]
                /\ dropLog' = DropOrder(firstp, len)
                /\ mem' = DropSlots(mem, DropOrder(firstp, len))

\* MoveType::raw_move
RawMove(firstp, lastp, dest) ==
    /\ Live(mem, firstp, OffsetFrom(lastp, firstp))
    /\ InMem(dest, OffsetFrom(lastp, firstp))
    /\ pre' = mem
    /\ call' = [op |-> "MoveType::raw_move", first |-> firstp, last |-> lastp,
                dest |-> dest, outcome |-> "return"]
    /\ dropLog' = <<>>
    /\ mem' = MoveLoop(mem, firstp, dest, 0, OffsetFrom(lastp, firstp))

\* CopyMoveType::raw_copy
CopyMoveRawCopy(firstp, lastp, dest) ==
    /\ Live(mem, firstp, OffsetFrom(lastp, firstp))
    /\ InMem(dest, OffsetFrom(lastp, firstp))
    /\ pre' = mem
    /\ call' = [op |-> "CopyMoveType::raw_copy", first |-> firstp, last |-> lastp,
                dest |-> dest, outcome |-> "return"]
    /\ dropLog' = <<>>
    /\ mem' = CopyLoop(mem, firstp, dest, 0, OffsetFrom(lastp, firstp))

\* CopyMoveType::raw_fill
CopyMoveRawFill(firstp, lastp, value) ==
    /\ InMem(firstp, OffsetFrom(lastp, firstp))
    /\ Live(mem, value, 1)
    /\ pre' = mem
    /\ call' = [op |-> "CopyMoveType::raw_fill", first |-> firstp, last |-> lastp,
                dest |-> value, outcome |-> "return"]
    /\ dropLog' = <<>>
    /\ mem' = FillLoop(mem, firstp, value, 0, OffsetFrom(lastp, firstp))

\* CopyOnlyType::raw_move
CopyOnlyRawMove(firstp, lastp, dest) ==
    /\ Live(mem, firstp, OffsetFrom(lastp, firstp))
    /\ InMem(dest, OffsetFrom(lastp, firstp))
    /\ pre' = mem
    /\ call' = [op |-> "CopyOnlyType::raw_move", first |-> firstp, last |-> lastp,
                dest |-> dest, outcome |-> "return"]
    /\ dropLog' = <<>>
    /\ mem' = CopyLoop(mem, firstp, dest, 0, OffsetFrom(lastp, firstp))

\* CopyOnlyType::raw_copy
CopyOnlyRawCopy(firstp, lastp, dest) ==
    /\ Live(mem, firstp, OffsetFrom(lastp, firstp))
    /\ InMem(dest, OffsetFrom(lastp, firstp))
    /\ pre' = mem
    /\ call' = [op |-> "CopyOnlyType::raw_copy", first |-> firstp, last |-> lastp,
                dest |-> dest, outcome |-> "return"]
    /\ dropLog' = <<>>
    /\ mem' = CopyLoop(mem, firstp, dest, 0, OffsetFrom(lastp, firstp))

\* CopyOnlyType::raw_fill
CopyOnlyRawFill(firstp, lastp, value) ==
    /\ InMem(firstp, OffsetFrom(lastp, firstp))
    /\ Live(mem, value, 1)
    /\ pre' = mem
    /\ call' = [op |-> "CopyOnlyType::raw_fill", first |-> firstp, last |-> lastp,
                dest |-> value, outcome |-> "return"]
    /\ dropLog' = <<>>
    /\ mem' = FillLoop(mem, firstp, value, 0, OffsetFrom(lastp, firstp))

SemNext ==
    \/ Running /\ \E f \in Ptr, l \in Ptr : RawDrop(f, l) /\ UNCHANGED <<tagVars, strVars>>
    \/ Running /\ \E f \in Ptr, l \in Ptr, d \in Ptr : RawMove(f, l, d) /\ UNCHANGED <<tagVars, strVars>>
    \/ Running /\ \E f \in Ptr, l \in Ptr, d \in Ptr : CopyMoveRawCopy(f, l, d) /\ UNCHANGED <<tagVars, strVars>>
    \/ Running /\ \E f \in Ptr, l \in Ptr, v \in Addr : CopyMoveRawFill(f, l, v) /\ UNCHANGED <<tagVars, strVars>>
    \/ Running /\ \E f \in Ptr, l \in Ptr, d \in Ptr : CopyOnlyRawMove(f, l, d) /\ UNCHANGED <<tagVars, strVars>>
    \/ Running /\ \E f \in Ptr, l \in Ptr, d \in Ptr : CopyOnlyRawCopy(f, l, d) /\ UNCHANGED <<tagVars, strVars>>
    \/ Running /\ \E f \in Ptr, l \in Ptr, v \in Addr : CopyOnlyRawFill(f, l, v) /\ UNCHANGED <<tagVars, strVars>>

(***************************************************************************)
(* semantics.rs: BaseType::SIZE, ALIGN and TYPE                            *)
(***************************************************************************)
RECURSIVE BitAnd(_, _)
BitAnd(a, b) ==
    IF a = 0 \/ b = 0 THEN 0
    ELSE (a % 2) * (b % 2) + 2 * BitAnd(a \div 2, b \div 2)

RECURSIVE BitOr(_, _)
BitOr(a, b) ==
    IF a = 0 THEN b
    ELSE IF b = 0 THEN a
    ELSE Max(a % 2, b % 2) + 2 * BitOr(a \div 2, b \div 2)

\* negation that leaves the machine word
NegNotWrapped(x) == 0 - x

\* usize::wrapping_neg
WrappingNeg(x) == (USIZE_MOD - x) % USIZE_MOD

\* the types the compiler can lay out: the alignment is a power of two, the
\* size a multiple of it (zero included) that does not exceed isize::MAX
Aligns == {2 ^ k : k \in 0..(WordBits - 2)}
RealTypes == {t \in [size : 0..ISIZE_MAX, align : Aligns] : t.size % t.align = 0}

\* BaseType::SIZE
SIZE(t) == IF t.size # 0 THEN t.size ELSE 1

\* BaseType::ALIGN
ALIGN(t) == t.align

\* TYPE without the wrapping negation
TYPENotNegated(t) ==
    IF BitAnd(SIZE(t), ALIGN(t)) = 0
    THEN BitOr(SIZE(t), ALIGN(t))
    ELSE SIZE(t)

\* BaseType::TYPE
TYPE(t) ==
    IF BitAnd(SIZE(t), ALIGN(t)) = 0
    THEN WrappingNeg(BitOr(SIZE(t), ALIGN(t)))
    ELSE SIZE(t)

NotEvaluated == -1

TagInit ==
    /\ types \in [1..2 -> RealTypes]
    /\ tags = [k \in 1..2 |-> NotEvaluated]
    \* the other specifications' variables stay idle
    /\ mem = <<>> /\ pre = <<>> /\ call = NoCall /\ dropLog = <<>>
    /\ val = <<>> /\ heap = <<>> /\ last = <<>> /\ before = <<>>
    /\ saved = <<>> /\ hist = <<>> /\ reqs = 0 /\ trans = 0
    /\ twin = <<>> /\ live = {} /\ actor = "none"

\* the compiler evaluates <T as BaseType>::TYPE for the k-th type
EvalType(k) ==
    /\ tags[k] = NotEvaluated
    /\ tags' = [tags EXCEPT ![k] = TYPE(types[k])]
    /\ UNCHANGED types

TagNext == \E k \in 1..2 : EvalType(k) /\ UNCHANGED <<semVars, strVars>>

(***************************************************************************)
(* string/utf16.rs: CxxUtf16String                                         *)
(***************************************************************************)
MaxCap == 17            \* largest capacity the allocator is asked for
CapSlack == 1           \* the allocator may grant up to this much more than asked
MaxSliceLen == 10       \* longest slice passed to from_bytes_in / push / extend

InlineCap == 7          \* `res: 7`
BufLen == 8             \* `buf: [0; 8]`
Junk == -1              \* a code unit of memory nobody has written
NullPtr == 0
AllocIds == {1, 2, 3}   \* addresses the allocator hands out

\* the slices callers pass in: code units 0, 1, 2 in a fixed pattern
Pattern(n, k) == [i \in 1..n |-> (i + k) % 3]
SliceLens == {0, 3, InlineCap, InlineCap + 1, MaxSliceLen}
Slices == {Pattern(n, 0) : n \in SliceLens}
Grants == 0..CapSlack
Additionals == {0, 1, InlineCap + 1, ISIZE_MAX - InlineCap, ISIZE_MAX}

JunkBuf(n) == [i \in 1..n |-> Junk]

\* `n` units read from the start of `buf`; past its end the read is out of bounds
ReadUnits(buf, n) == [i \in 1..n |-> IF i <= Len(buf) THEN buf[i] ELSE Junk]

\* the units of `s` written into `buf` from 0-based index `pos`
WriteAt(buf, pos, s) ==
    [i \in 1..Len(buf) |-> IF i > pos /\ i <= pos + Len(s) THEN s[i - pos] ELSE buf[i]]

\* new_in that leaves the inline buffer unwritten
new_in_uninit_buf ==
    [bx |-> [kind |-> "buf", buf |-> JunkBuf(BufLen), ptr |-> NullPtr],
     size |-> 0,
     res |-> InlineCap]

\* new_in that takes the buffer length, terminator slot included, for the capacity
new_in_res_buflen ==
    [bx |-> [kind |-> "buf", buf |-> [i \in 1..BufLen |-> 0], ptr |-> NullPtr],
     size |-> 0,
     res |-> BufLen]

\* CxxUtf16String::new_in (and new): an empty inline string
new_in ==
    [bx |-> [kind |-> "buf", buf |-> [i \in 1..BufLen |-> 0], ptr |-> NullPtr],
     size |-> 0,
     res |-> InlineCap]

\* len that counts the terminator
len_with_nul(v) == v.size + 1

\* CxxUtf16String::len
len(v) == v.size

\* capacity that reports the size field
capacity_as_size(v) == v.size

\* CxxUtf16String::capacity
capacity(v) == v.res

\* Debug for CxxUtf16String: the field "large_mode"
large_mode(v) == v.res > InlineCap

\* CSTL_u16string_c_str: the buffer the string's data lives in, chosen by the
\* capacity; a bx that does not match the capacity is read as whatever is there
c_str(v, h) ==
    IF large_mode(v)
    THEN IF v.bx.kind = "ptr" /\ v.bx.ptr \in DOMAIN h THEN h[v.bx.ptr] ELSE JunkBuf(0)
    ELSE IF v.bx.kind = "buf" THEN v.bx.buf ELSE JunkBuf(BufLen)

\* CxxUtf16String::as_bytes
as_bytes(v, h) == ReadUnits(c_str(v, h), len(v))

\* CxxUtf16String::as_bytes_with_nul
as_bytes_with_nul(v, h) == ReadUnits(c_str(v, h), len(v) + 1)

\* the string and its allocator while an operation runs
St(v, h, r, t) == [val |-> v, heap |-> h, reqs |-> r, trans |-> t]

\* store `buf` as the string's data buffer
SetBuf(st, buf) ==
    IF large_mode(st.val)
    THEN IF st.val.bx.kind = "ptr" /\ st.val.bx.ptr \in DOMAIN st.heap
         THEN [st EXCEPT !.heap = [st.heap EXCEPT ![st.val.bx.ptr] = buf]]
         ELSE st
    ELSE [st EXCEPT !.val.bx.buf = buf]

FreshId(h) == CHOOSE id \in AllocIds \ DOMAIN h : \A o \in AllocIds \ DOMAIN h : id <= o

Without(h, id) == [a \in DOMAIN h \ {id} |-> h[a]]

\* move the data to a new allocation of capacity `newcap`, keeping the first
\* `keep` units and releasing the old allocation if there was one
Grow(st, newcap, keep) ==
    LET old == c_str(st.val, st.heap)
        wasLarge == large_mode(st.val)
        id == FreshId(st.heap)
        newbuf == [i \in 1..(newcap + 1) |->
                      IF i <= keep /\ i <= Len(old) THEN old[i] ELSE Junk]
        h1 == (id :> newbuf) @@ st.heap
        h2 == IF wasLarge THEN Without(h1, st.val.bx.ptr) ELSE h1
    IN  [val |-> [bx |-> [kind |-> "ptr", buf |-> JunkBuf(BufLen), ptr |-> id],
                  size |-> st.val.size,
                  res |-> newcap],
         heap |-> h2,
         reqs |-> st.reqs + (IF wasLarge THEN 2 ELSE 1),
         trans |-> st.trans + (IF wasLarge THEN 0 ELSE 1)]

\* CSTL_u16string_assign_n(val, s, n, alloc)
assign_n(st, s, n, grant) ==
    LET st1 == IF n > st.val.res THEN Grow(st, n + grant, 0) ELSE st
        st2 == SetBuf(st1, WriteAt(c_str(st1.val, st1.heap), 0,
                                   ReadUnits(s, n) \o <<0>>))
    IN  [st2 EXCEPT !.val.size = n]

\* CSTL_u16string_append_n(val, s, n, alloc)
append_n(st, s, n, grant) ==
    LET size == st.val.size
        st1 == IF size + n > st.val.res
               THEN Grow(st, Max(size + n, 2 * st.val.res) + grant, size)
               ELSE st
        st2 == SetBuf(st1, WriteAt(c_str(st1.val, st1.heap), size,
                                   ReadUnits(s, n) \o <<0>>))
    IN  [st2 EXCEPT !.val.size = size + n]

\* CSTL_u16string_append_char(val, count, ch, alloc)
append_char(st, count, ch, grant) ==
    append_n(st, [i \in 1..count |-> ch], count, grant)

\* CSTL_u16string_clear(val)
clear_(st) ==
    LET st1 == SetBuf(st, WriteAt(c_str(st.val, st.heap), 0, <<0>>))
    IN  [st1 EXCEPT !.val.size = 0]

\* CSTL_u16string_reserve(val, new_cap, alloc)
reserve_(st, newcap, grant) ==
    IF newcap > st.val.res
    THEN LET st1 == Grow(st, newcap + grant, st.val.size)
         IN  SetBuf(st1, WriteAt(c_str(st1.val, st1.heap), st.val.size, <<0>>))
    ELSE st

\* CSTL_u16string_shrink_to_fit(val, alloc)
shrink_to_fit_(st) ==
    LET size == st.val.size
        old == c_str(st.val, st.heap)
    IN  IF ~large_mode(st.val) THEN st
        ELSE IF size <= InlineCap
        THEN [val |-> [bx |-> [kind |-> "buf",
                               buf |-> WriteAt(JunkBuf(BufLen), 0,
                                               ReadUnits(old, size) \o <<0>>),
                               ptr |-> NullPtr],
                       size |-> size,
                       res |-> InlineCap],
              heap |-> Without(st.heap, st.val.bx.ptr),
              reqs |-> st.reqs + 1,
              trans |-> st.trans]
        ELSE IF size < st.val.res
        THEN LET st1 == Grow(st, size, size)
             IN  SetBuf(st1, WriteAt(c_str(st1.val, st1.heap), size, <<0>>))
        ELSE st

\* CSTL_u16string_destroy(val, alloc): releases the allocation, if there is one
destroy_(st) ==
    IF large_mode(st.val)
    THEN [st EXCEPT !.heap = Without(st.heap, st.val.bx.ptr), !.reqs = st.reqs + 1]
    ELSE st

\* from_bytes_in that returns the new string without assigning the slice
from_bytes_in_unassigned(s, h, grant) == St(new_in, h, 0, 0)

\* CxxUtf16String::from_bytes_in
from_bytes_in(s, h, grant) ==
    LET new == new_in
    IN  assign_n(St(new, h, 0, 0), s, Len(s), grant)

\* push that passes one unit less than the slice holds
push_short(st, s, grant) == append_n(st, s, Max(Len(s) - 1, 0), grant)

\* CxxUtf16String::push
push(st, s, grant) == append_n(st, s, Len(s), grant)

\* clear that starts over from a new string, dropping the buffer it held
clear_as_new(st) == [st EXCEPT !.val = new_in]

\* CxxUtf16String::clear
clear(st) == clear_(st)

\* the check with <= for <: a request for exactly isize::MAX panics too
reserve_overflows_at_max(v, additional) == ISIZE_MAX - capacity(v) <= additional

\* the check of CxxUtf16String::reserve that panics
reserve_overflows(v, additional) == ISIZE_MAX - capacity(v) < additional

\* reserve that adds `additional` to the length instead of the capacity
reserve_from_len(st, additional, grant) ==
    reserve_(st, len(st.val) + additional, grant)

\* CxxUtf16String::reserve, when it does not panic
reserve(st, additional, grant) ==
    reserve_(st, capacity(st.val) + additional, grant)

\* shrink_to_fit that never reaches CSTL_u16string_shrink_to_fit
shrink_to_fit_skipped(st) == st

\* CxxUtf16String::shrink_to_fit
shrink_to_fit(st) == shrink_to_fit_(st)

\* a string that goes away without CSTL_u16string_destroy
drop_skipped(st) == st

\* Drop for CxxUtf16String
drop(st) == destroy_(st)

\* the loop of Extend::extend: one CSTL_u16string_append_char per item
RECURSIVE extend_loop(_, _, _)
extend_loop(st, s, grant) ==
    IF s = <<>> THEN st
    ELSE extend_loop(append_char(st, 1, Head(s), grant), Tail(s), grant)

\* Extend::extend, when its reserve does not panic
extend(st, s, hint, grant) == extend_loop(reserve(st, hint, grant), s, grant)

\* what the accessors of the string return
Observe(v, h) ==
    [len |-> len(v), capacity |-> capacity(v), bytes |-> as_bytes(v, h),
     kind |-> v.bx.kind, allocs |-> DOMAIN h]

Content(v, h) == [len |-> len(v), capacity |-> capacity(v), bytes |-> as_bytes(v, h)]
NoContent == [len |-> 0, capacity |-> 0, bytes |-> <<Junk>>]

Op(name, arg, n, outcome) == [op |-> name, arg |-> arg, n |-> n, outcome |-> outcome]
NoOp == Op("none", <<>>, 0, "return")

Entry(name, arg, t) == [op |-> name, arg |-> arg, trans |-> t]
Forgotten == <<Entry("more", <<>>, 0)>>
Record(h, e) == IF h # Forgotten /\ Len(h) < 2 THEN Append(h, e) ELSE Forgotten

StrInit ==
    /\ val = new_in
    /\ heap = <<>>
    /\ last = Op("new", <<>>, 0, "return")
    /\ before = Observe(new_in, <<>>)
    /\ saved = NoContent
    /\ hist = <<>>
    /\ reqs = 0
    /\ trans = 0
    \* the other specifications' variables stay idle
    /\ twin = <<>> /\ live = {} /\ actor = "none"
    /\ mem = <<>> /\ pre = <<>> /\ call = NoCall /\ dropLog = <<>>
    /\ types = <<>> /\ tags = <<>>

\* The units of the data buffer past the terminator slot are never read by any
\* operation (reads stop at index size); the model does not track what an
\* earlier, longer content left there and holds them as Junk.
Untracked(st) ==
    LET buf == c_str(st.val, st.heap)
    IN  SetBuf(st, [i \in 1..Len(buf) |-> IF i <= st.val.size + 1 THEN buf[i] ELSE Junk])

\* the string has not been dropped
Alive == last.op # "drop"

\* the operation `name` took the string to `st`
Becomes(st, name, arg, n) ==
    /\ Alive
    /\ st.val.res <= MaxCap
    /\ val' = Untracked(st).val
    /\ heap' = Untracked(st).heap
    /\ reqs' = st.reqs
    /\ trans' = st.trans
    /\ before' = Observe(val, heap)
    /\ saved' = IF name = "clear" THEN Content(val, heap)
                ELSE IF name = "push" /\ last.op = "clear" THEN saved
                ELSE NoContent
    /\ hist' = Record(hist, Entry(name, arg, st.trans))
    /\ last' = Op(name, arg, n, "return")
    /\ UNCHANGED <<twin, live, actor>>

\* the operation panicked before it touched the string
Panics(name, arg, n) ==
    /\ Alive
    /\ UNCHANGED <<val, heap>>
    /\ reqs' = 0
    /\ trans' = 0
    /\ before' = Observe(val, heap)
    /\ saved' = NoContent
    /\ hist' = Record(hist, Entry(name, arg, 0))
    /\ last' = Op(name, arg, n, "panic")
    /\ UNCHANGED <<twin, live, actor>>

Cur == St(val, heap, 0, 0)

FromBytesIn(s, grant) ==
    /\ last.op = "new"
    /\ Becomes(from_bytes_in(s, heap, grant), "from_bytes_in", s, 0)

Push(s, grant) == Becomes(push(Cur, s, grant), "push", s, 0)

Clear == Becomes(clear(Cur), "clear", <<>>, 0)

Reserve(additional, grant) ==
    IF reserve_overflows(val, additional)
    THEN Panics("reserve", <<>>, additional)
    ELSE Becomes(reserve(Cur, additional, grant), "reserve", <<>>, additional)

ShrinkToFit == Becomes(shrink_to_fit(Cur), "shrink_to_fit", <<>>, 0)

Extend(s, hint, grant) ==
    IF reserve_overflows(val, hint)
    THEN Panics("extend", s, hint)
    ELSE Becomes(extend(Cur, s, hint, grant), "extend", s, hint)

\* the owner lets the string go out of scope
Drop == Becomes(drop(Cur), "drop", <<>>, 0)

StrNext ==
    \/ \E s \in Slices, g \in Grants : FromBytesIn(s, g) /\ UNCHANGED <<semVars, tagVars>>
    \/ \E s \in Slices, g \in Grants : Push(s, g) /\ UNCHANGED <<semVars, tagVars>>
    \/ Clear /\ UNCHANGED <<semVars, tagVars>>
    \/ \E a \in Additionals, g \in Grants : Reserve(a, g) /\ UNCHANGED <<semVars, tagVars>>
    \/ ShrinkToFit /\ UNCHANGED <<semVars, tagVars>>
    \/ \E s \in Slices, g \in Grants : \E hint \in {0, Len(s)} :
          Extend(s, hint, g) /\ UNCHANGED <<semVars, tagVars>>
    \/ Drop /\ UNCHANGED <<semVars, tagVars>>

(***************************************************************************)
(* A CxxUtf16String and its clone (SpecClone)                              *)
(*                                                                         *)
(* Two strings, "orig" in val and "twin" in twin, over one allocator.      *)
(* before holds what the string the last operation was not called on was   *)
(* before it (for clone: the original).                                    *)
(***************************************************************************)
Stores == {"orig", "twin"}
CloneSlices == {Pattern(n, 0) : n \in {3, InlineCap + 1}}
ClonePushed == {Pattern(3, 1)}
CloneAdditionals == {InlineCap + 1}

\* the twin before clone() has returned it
NoTwin == [bx |-> [kind |-> "none", buf |-> <<>>, ptr |-> NullPtr], size |-> 0, res |-> 0]

\* clone that copies the fields of val, as a bitwise copy would
clone_shallow(v, h, grant) == St(v, h, 0, 0)

\* Clone for CxxUtf16String: Self::from_bytes_in(self, self.alloc.clone())
clone(v, h, grant) == from_bytes_in(as_bytes(v, h), h, grant)

\* a string, the buffer its data lives in and whether that buffer is there
Snap(v, h) ==
    [val |-> v,
     buf |-> IF v = NoTwin THEN <<>> ELSE c_str(v, h),
     held |-> v # NoTwin /\ (v.bx.kind = "ptr" => v.bx.ptr \in DOMAIN h)]

Store(who) == IF who = "orig" THEN val ELSE twin

Other(who) == IF who = "orig" THEN "twin" ELSE "orig"

CloneInit ==
    /\ val = new_in
    /\ twin = NoTwin
    /\ heap = <<>>
    /\ live = {"orig"}
    /\ actor = "none"
    /\ last = Op("new", <<>>, 0, "return")
    /\ before = Snap(NoTwin, <<>>)
    /\ reqs = 0
    /\ trans = 0
    \* the other specifications' variables stay idle
    /\ saved = NoContent /\ hist = <<>>
    /\ mem = <<>> /\ pre = <<>> /\ call = NoCall /\ dropLog = <<>>
    /\ types = <<>> /\ tags = <<>>

\* the operation `name`, called on the string `who`, took it to `st`
Acts(who, st, name) ==
    /\ who \in live
    /\ st.val.res <= MaxCap
    /\ IF who = "orig"
       THEN val' = Untracked(st).val /\ twin' = twin
       ELSE twin' = Untracked(st).val /\ val' = val
    /\ heap' = Untracked(st).heap
    /\ live' = IF name = "drop" THEN live \ {who} ELSE live
    /\ actor' = who
    /\ last' = Op(name, <<>>, 0, "return")
    /\ before' = Snap(Store(Other(who)), heap)
    /\ UNCHANGED <<reqs, trans, saved, hist>>

Of(who) == St(Store(who), heap, 0, 0)

CloneFromBytesIn(s) ==
    /\ last.op = "new"
    /\ Acts("orig", from_bytes_in(s, heap, 0), "from_bytes_in")

\* let twin = orig.clone()
Clone ==
    /\ "orig" \in live
    /\ twin = NoTwin
    /\ LET st == clone(val, heap, 0)
       IN  /\ st.val.res <= MaxCap
           /\ twin' = Untracked(st).val
           /\ heap' = Untracked(st).heap
           /\ reqs' = st.reqs
           /\ trans' = st.trans
    /\ live' = live \cup {"twin"}
    /\ actor' = "orig"
    /\ last' = Op("clone", <<>>, 0, "return")
    /\ before' = Snap(val, heap)
    /\ UNCHANGED <<val, saved, hist>>

ClonePush(who, s) == Acts(who, push(Of(who), s, 0), "push")

CloneClear(who) == Acts(who, clear(Of(who)), "clear")

CloneReserve(who, additional) ==
    /\ ~reserve_overflows(Store(who), additional)
    /\ Acts(who, reserve(Of(who), additional, 0), "reserve")

CloneShrinkToFit(who) == Acts(who, shrink_to_fit(Of(who)), "shrink_to_fit")

CloneDrop(who) == Acts(who, drop(Of(who)), "drop")

CloneNext ==
    \/ \E s \in CloneSlices : CloneFromBytesIn(s) /\ UNCHANGED <<semVars, tagVars>>
    \/ Clone /\ UNCHANGED <<semVars, tagVars>>
    \/ \E who \in Stores, s \in ClonePushed :
          ClonePush(who, s) /\ UNCHANGED <<semVars, tagVars>>
    \/ \E who \in Stores : CloneClear(who) /\ UNCHANGED <<semVars, tagVars>>
    \/ \E who \in Stores, a \in CloneAdditionals :
          CloneReserve(who, a) /\ UNCHANGED <<semVars, tagVars>>
    \/ \E who \in Stores : CloneShrinkToFit(who) /\ UNCHANGED <<semVars, tagVars>>
    \/ \E who \in Stores : CloneDrop(who) /\ UNCHANGED <<semVars, tagVars>>

(***************************************************************************)
(* The specifications                                                      *)
(***************************************************************************)
SpecSem == SemInit /\ [][SemNext]_vars
SpecTag == TagInit /\ [][TagNext]_vars
SpecStr == StrInit /\ [][StrNext]_vars
SpecClone == CloneInit /\ [][CloneNext]_vars

(***************************************************************************)
(* Properties of the range primitives (SpecSem)                            *)
(***************************************************************************)
CallLen == OffsetFrom(call.last, call.first)
CallDisjoint == Disjoint(call.first, call.dest, CallLen)

\* C1: after MoveType::raw_move over a range of n >= 0 elements into a disjoint
\* destination, every source slot holds the default value and every
\* destination slot holds what the matching source slot held before the call.
C1_MoveLeavesDefault ==
    (call.op = "MoveType::raw_move" /\ CallLen >= 0 /\ CallDisjoint) =>
        \A i \in LoopRange(CallLen) :
            /\ mem[call.first + i] = DefaultVal
            /\ mem[call.dest + i] = pre[call.first + i]

C1_Witness ==
    /\ call.op = "MoveType::raw_move"
    /\ CallLen = 2
    /\ CallDisjoint
    /\ pre[call.first] \notin {DefaultVal, pre[call.first + 1]}
    /\ pre[call.first + 1] # DefaultVal
    /\ mem[call.dest] = pre[call.first]
    /\ mem[call.first] = DefaultVal

\* C2: after CopyOnlyType::raw_move over a range of n >= 0 elements into a
\* disjoint destination, every source slot holds what it held before the call
\* and every destination slot holds a duplicate of the matching source slot.
C2_CopyAsMoveKeepsSource ==
    (call.op = "CopyOnlyType::raw_move" /\ CallLen >= 0 /\ CallDisjoint) =>
        \A i \in LoopRange(CallLen) :
            /\ mem[call.first + i] = pre[call.first + i]
            /\ mem[call.dest + i] = CloneOf(pre[call.first + i])

C2_Witness ==
    /\ call.op = "CopyOnlyType::raw_move"
    /\ CallLen = 2
    /\ CallDisjoint
    /\ pre[call.first] \notin {DefaultVal, pre[call.first + 1]}
    /\ pre[call.dest] # pre[call.first]
    /\ mem[call.dest] = pre[call.first]
    /\ mem[call.first] = pre[call.first]

\* C3: raw_drop over a range of n >= 0 live elements runs the destructor n
\* times, on first, first+1, ..., last-1 in this order: no element twice, none
\* outside the range, and the slots outside the range stay as they were.
C3_DropOnceAscending ==
    (call.op = "raw_drop" /\ CallLen >= 0) =>
        /\ call.outcome = "return"
        /\ Len(dropLog) = CallLen
        /\ \A i \in LoopRange(CallLen) : dropLog[i + 1] = call.first + i
        /\ \A a \in Addr :
              mem[a] = IF call.first <= a /\ a < call.last THEN Uninit ELSE pre[a]

C3_Witness ==
    /\ call.op = "raw_drop"
    /\ CallLen = 3
    /\ dropLog = <<call.first, call.first + 1, call.first + 2>>
    /\ \E a \in Addr : a \notin {dropLog[i] : i \in 1..3} /\ pre[a] # Uninit

\* C17: raw_copy of either table, over a range of n >= 0 elements into a
\* disjoint destination, leaves every source slot as it was, writes a duplicate
\* of each source element into the matching destination slot and writes no
\* slot outside the destination range.
C17_CopyDuplicatesOnlyIntoDest ==
    (/\ call.op \in {"CopyMoveType::raw_copy", "CopyOnlyType::raw_copy"}
     /\ call.last >= call.first
     /\ CallDisjoint) =>
        /\ \A i \in LoopRange(call.last - call.first) :
              /\ mem[call.first + i] = pre[call.first + i]
              /\ mem[call.dest + i] = CloneOf(pre[call.first + i])
        /\ \A a \in Addr :
              (a < call.dest \/ a >= call.dest + (call.last - call.first)) => mem[a] = pre[a]

C17_Witness ==
    /\ call.op = "CopyMoveType::raw_copy"
    /\ call.last - call.first = 2
    /\ CallDisjoint
    /\ pre[call.first] # pre[call.first + 1]
    /\ pre[call.dest] # pre[call.first]
    /\ pre[call.dest + 1] # pre[call.first + 1]
    /\ mem[call.dest] = pre[call.first]
    /\ mem[call.dest + 1] = pre[call.first + 1]

\* C18: raw_drop called with last < first aborts: it does not return and it
\* runs no destructor, so the memory is as it was.
C18_InvertedDropAborts ==
    (call.op = "raw_drop" /\ call.last < call.first) =>
        /\ call.outcome = "abort"
        /\ dropLog = <<>>
        /\ mem = pre

C18_Witness ==
    /\ call.op = "raw_drop"
    /\ call.last < call.first
    /\ call.outcome = "abort"
    /\ \A a \in Addr : pre[a] # Uninit /\ mem[a] = pre[a]

MoveCopyFillOps ==
    {"MoveType::raw_move", "CopyMoveType::raw_copy", "CopyMoveType::raw_fill",
     "CopyOnlyType::raw_move", "CopyOnlyType::raw_copy", "CopyOnlyType::raw_fill"}

\* C20: raw_move, raw_copy and raw_fill of both tables, called with
\* last < first, visit no index: they return, nothing is dropped and every
\* slot of the memory is as it was.
C20_InvertedMoveCopyFillDoNothing ==
    (call.op \in MoveCopyFillOps /\ call.last < call.first) =>
        /\ call.outcome = "return"
        /\ dropLog = <<>>
        /\ mem = pre

C20_Witness ==
    /\ call.op = "CopyOnlyType::raw_fill"
    /\ call.last < call.first
    /\ call.outcome = "return"
    /\ pre[call.dest] # Uninit
    /\ \E a \in Addr : pre[a] # pre[call.dest]
    /\ mem = pre

(***************************************************************************)
(* Properties of the tag encoding (SpecTag)                                *)
(***************************************************************************)
Evaluated == \A k \in 1..2 : tags[k] # NotEvaluated

\* C4: two types that are not zero-sized and differ in size or alignment have
\* different tags.
C4_TagInjectiveOnSizedTypes ==
    (/\ Evaluated
     /\ types[1].size > 0
     /\ types[2].size > 0
     /\ types[1] # types[2]) => tags[1] # tags[2]

C4_Witness ==
    /\ Evaluated
    /\ types[1] = [size |-> 16, align |-> 8]
    /\ types[2] = [size |-> 24, align |-> 8]
    /\ tags[1] = USIZE_MOD - 24
    /\ tags[2] = 24

\* the (size, alignment) pair a type reports: BaseType::SIZE and ALIGN
Reported(t) == <<SIZE(t), ALIGN(t)>>

\* the tag as arithmetic on a size that is a multiple of a power-of-two
\* alignment, or 1: size & align is 0 exactly when align's bit is clear in size
ExpectedTag(size, align) ==
    IF (size \div align) % 2 = 0
    THEN (USIZE_MOD - (size + align)) % USIZE_MOD
    ELSE size

\* C15: with SIZE the size, or 1 for a zero-sized type, TYPE is the two's
\* complement negation of SIZE | ALIGN in the machine word when
\* SIZE & ALIGN = 0 and SIZE otherwise; it is a value of the machine word and
\* SIZE is never 0.
C15_TagValue ==
    \A k \in 1..2 :
        tags[k] # NotEvaluated =>
            /\ SIZE(types[k]) >= 1
            /\ SIZE(types[k]) = IF types[k].size = 0 THEN 1 ELSE types[k].size
            /\ tags[k] \in 0..(USIZE_MOD - 1)
            /\ tags[k] = ExpectedTag(SIZE(types[k]), ALIGN(types[k]))

C15_Witness ==
    /\ Evaluated
    /\ types[1] = [size |-> 0, align |-> 4]
    /\ tags[1] = USIZE_MOD - 5
    /\ types[2] = [size |-> 12, align |-> 4]
    /\ tags[2] = 12

\* C19: original statement: two types, zero-sized ones included, whose
\* reported (size, alignment) pairs differ have different tags.
C19_TagInjectiveWithZeroSized ==
    (Evaluated /\ Reported(types[1]) # Reported(types[2])) => tags[1] # tags[2]

(***************************************************************************)
(* Properties of CxxUtf16String (SpecStr)                                  *)
(***************************************************************************)
\* C5: the code unit at index size of the current buffer is zero: the slice
\* as_bytes_with_nul() has len() + 1 units, the last one is 0 and the units
\* before it are as_bytes().
C5_NulTerminated ==
    Alive =>
        LET withNul == as_bytes_with_nul(val, heap)
        IN  /\ len(val) + 1 <= Len(c_str(val, heap))
            /\ Len(withNul) = len(val) + 1
            /\ withNul[len(val) + 1] = 0
            /\ SubSeq(withNul, 1, len(val)) = as_bytes(val, heap)

C5_Witness ==
    /\ last.op = "extend"
    /\ val.bx.kind = "ptr"
    /\ len(val) = capacity(val)
    /\ before.len > 0
    /\ as_bytes_with_nul(val, heap)[len(val) + 1] = 0

\* C6: the capacity is never smaller than the length.
C6_CapacityCoversLen == capacity(val) >= len(val)

C6_Witness ==
    /\ last.op = "push"
    /\ before.len + Len(last.arg) > before.capacity
    /\ before.kind = "ptr"
    /\ capacity(val) >= len(val)
    /\ len(val) > before.capacity

\* C7: the string holds its data in the inline buffer exactly when its capacity
\* is at most 7, and the capacity is then 7; it holds a pointer to a live
\* allocation of the allocator exactly when its capacity exceeds 7.
C7_InlineIffCapacityAtMost7 ==
    Alive =>
        /\ val.bx.kind = "buf" <=> capacity(val) <= InlineCap
        /\ val.bx.kind = "buf" => capacity(val) = InlineCap
        /\ val.bx.kind = "ptr" <=> capacity(val) > InlineCap
        /\ val.bx.kind = "ptr" => val.bx.ptr \in DOMAIN heap
        /\ large_mode(val) <=> val.bx.kind = "ptr"

C7_Witness ==
    /\ last.op = "shrink_to_fit"
    /\ before.kind = "ptr"
    /\ val.bx.kind = "buf"
    /\ capacity(val) = InlineCap
    /\ len(val) > 0

\* C8: from_bytes_in(a) with at most 7 units followed by push(b) with
\* |a| + |b| > 7 gives len() = |a| + |b|, the content a followed by b, a zero
\* at index size, as_bytes_with_nul() of len() + 1 units, and one buf -> ptr
\* transition over the two operations.
C8_AssignThenPushAcrossInline ==
    (/\ Len(hist) = 2
     /\ hist[1].op = "from_bytes_in"
     /\ hist[2].op = "push"
     /\ Len(hist[1].arg) <= InlineCap
     /\ Len(hist[1].arg) + Len(hist[2].arg) > InlineCap) =>
        /\ len(val) = Len(hist[1].arg) + Len(hist[2].arg)
        /\ as_bytes(val, heap) = hist[1].arg \o hist[2].arg
        /\ Len(as_bytes_with_nul(val, heap)) = len(val) + 1
        /\ as_bytes_with_nul(val, heap)[len(val) + 1] = 0
        /\ hist[1].trans + hist[2].trans = 1

C8_Witness ==
    /\ Len(hist) = 2
    /\ hist[1] = Entry("from_bytes_in", Pattern(3, 0), 0)
    /\ hist[2] = Entry("push", Pattern(10, 0), 1)
    /\ len(val) = 13
    /\ val.bx.kind = "ptr"

\* C9: a push whose units do not fit in the capacity leaves a capacity of at
\* least twice the capacity it found.
C9_PushGrowthDoubles ==
    (/\ last.op = "push"
     /\ before.len + Len(last.arg) > before.capacity) =>
        capacity(val) >= 2 * before.capacity

C9_Witness ==
    /\ last.op = "push"
    /\ before.kind = "ptr"
    /\ before.len + Len(last.arg) > before.capacity
    /\ before.len > 0
    /\ capacity(val) >= 2 * before.capacity

\* C10: clear() leaves length 0 with a zero at index 0, keeps the storage
\* and the capacity and makes no allocator request; a push of the cleared
\* content right after it gives back the length and the units and makes no
\* allocator request either.
C10_ClearThenPushRestores ==
    /\ last.op = "clear" =>
          /\ len(val) = 0
          /\ c_str(val, heap)[1] = 0
          /\ val.bx.kind = before.kind
          /\ capacity(val) = before.capacity
          /\ DOMAIN heap = before.allocs
          /\ reqs = 0
    /\ (last.op = "push" /\ saved # NoContent /\ last.arg = saved.bytes) =>
          /\ len(val) = saved.len
          /\ as_bytes(val, heap) = saved.bytes
          /\ capacity(val) = saved.capacity
          /\ reqs = 0

C10_Witness ==
    /\ last.op = "push"
    /\ saved # NoContent
    /\ last.arg = saved.bytes
    /\ saved.len > InlineCap
    /\ val.bx.kind = "ptr"
    /\ as_bytes(val, heap) = saved.bytes

\* C11: shrink_to_fit() on a string that holds an allocation keeps the length
\* and the units; with at most 7 units it goes back to the inline buffer with
\* capacity 7 and releases the allocation, with more it keeps an allocation
\* and the capacity comes down to the length.
C11_ShrinkToFit ==
    (last.op = "shrink_to_fit" /\ before.kind = "ptr") =>
        /\ len(val) = before.len
        /\ as_bytes(val, heap) = before.bytes
        /\ IF before.len <= InlineCap
           THEN /\ val.bx.kind = "buf"
                /\ capacity(val) = InlineCap
                /\ DOMAIN heap = {}
           ELSE /\ val.bx.kind = "ptr"
                /\ val.bx.ptr \in DOMAIN heap
                /\ capacity(val) = len(val)
                /\ capacity(val) <= before.capacity

C11_Witness ==
    /\ last.op = "shrink_to_fit"
    /\ before.kind = "ptr"
    /\ before.len \in 1..InlineCap
    /\ val.bx.kind = "buf"
    /\ as_bytes(val, heap) = before.bytes

C11_WitnessStaysOnHeap ==
    /\ last.op = "shrink_to_fit"
    /\ before.kind = "ptr"
    /\ before.len > InlineCap
    /\ before.capacity > before.len
    /\ val.bx.kind = "ptr"
    /\ capacity(val) = before.len

\* C12: reserve(additional) panics exactly when capacity() + additional
\* exceeds isize::MAX; it then makes no allocator request and leaves the
\* length, the capacity, the storage and the units as they were.
C12_ReserveOverflowPanics ==
    last.op = "reserve" =>
        /\ last.outcome = "panic" <=> before.capacity + last.n > ISIZE_MAX
        /\ last.outcome = "panic" =>
              /\ reqs = 0
              /\ Observe(val, heap) = before

C12_Witness ==
    /\ last.op = "reserve"
    /\ last.outcome = "panic"
    /\ before.capacity + last.n = ISIZE_MAX + 1
    /\ before.kind = "ptr"
    /\ before.len > 0
    /\ Observe(val, heap) = before

\* C16: a reserve(additional) that does not panic leaves a capacity of at
\* least the capacity it found plus additional, whatever the length, keeps the
\* length and the units, and the string holds an allocation if the capacity
\* now exceeds 7.
C16_ReserveFromCapacity ==
    (last.op = "reserve" /\ last.outcome = "return") =>
        /\ capacity(val) >= before.capacity + last.n
        /\ len(val) = before.len
        /\ as_bytes(val, heap) = before.bytes
        /\ capacity(val) > InlineCap => (val.bx.kind = "ptr" /\ val.bx.ptr \in DOMAIN heap)

C16_Witness ==
    /\ last.op = "reserve"
    /\ last.outcome = "return"
    /\ last.n > 0
    /\ before.kind = "buf"
    /\ before.len \in 1..(before.capacity - 1)
    /\ val.bx.kind = "ptr"
    /\ capacity(val) >= before.capacity + last.n
    /\ as_bytes(val, heap) = before.bytes

\* C13: while the string lives it owns exactly one live allocation when it
\* holds a pointer and none when it is inline; dropping it makes one release
\* request when it held an allocation and none when it was inline, and leaves
\* no allocation live.
C13_OneAllocationReleasedOnce ==
    /\ Alive =>
          DOMAIN heap = IF val.bx.kind = "ptr" THEN {val.bx.ptr} ELSE {}
    /\ last.op = "drop" =>
          /\ DOMAIN heap = {}
          /\ reqs = IF before.kind = "ptr" THEN 1 ELSE 0
          /\ Cardinality(before.allocs) = IF before.kind = "ptr" THEN 1 ELSE 0

C13_Witness ==
    /\ last.op = "drop"
    /\ before.kind = "ptr"
    /\ before.len > InlineCap
    /\ before.allocs # {}
    /\ DOMAIN heap = {}
    /\ reqs = 1

C13_WitnessInline ==
    /\ last.op = "drop"
    /\ before.kind = "buf"
    /\ before.len > 0
    /\ DOMAIN heap = {}
    /\ reqs = 0


(***************************************************************************)
(* Properties of a string and its clone (SpecClone)                        *)
(***************************************************************************)
\* the string `who` is as it was before the last operation: same fields,
\* same units in its buffer, and its allocation still there
Untouched(who) ==
    /\ Store(who) = before.val
    /\ c_str(Store(who), heap) = before.buf
    /\ before.held
    /\ Store(who).bx.kind = "ptr" => Store(who).bx.ptr \in DOMAIN heap

\* C14: clone() returns a second string with the same len() and the same code
\* units, held inline or in an allocation made by the clone and not the
\* original's; cloning leaves the original as it was; and after the clone,
\* an operation on either string, its drop included, leaves the other one's
\* size, content and allocation as they were.
C14_CloneIsDeepAndSeparate ==
    /\ last.op = "clone" =>
          /\ len(twin) = len(val)
          /\ as_bytes(twin, heap) = as_bytes(val, heap)
          /\ large_mode(twin) =>
                /\ twin.bx.kind = "ptr"
                /\ twin.bx.ptr \in DOMAIN heap
                /\ twin.bx.ptr # val.bx.ptr
                /\ reqs = 1
          /\ ~large_mode(twin) => twin.bx.kind = "buf" /\ reqs = 0
          /\ Untouched("orig")
    /\ (twin # NoTwin /\ last.op # "clone" /\ Other(actor) \in live) =>
          Untouched(Other(actor))
    /\ (twin # NoTwin /\ live = Stores /\ large_mode(val) /\ large_mode(twin)) =>
          val.bx.ptr # twin.bx.ptr

\* a heap-mode string was cloned, the original grew and was dropped, and the
\* twin is still there
C14_Witness ==
    /\ last.op = "drop"
    /\ actor = "orig"
    /\ live = {"twin"}
    /\ large_mode(twin)
    /\ val.bx.kind = "ptr"
    /\ val.size > twin.size
    /\ twin.bx.ptr \in DOMAIN heap

\* the clone of an inline string is inline, and it was written after the clone
C14_WitnessInline ==
    /\ last.op = "push"
    /\ actor = "twin"
    /\ ~large_mode(twin)
    /\ ~large_mode(val)
    /\ "orig" \in live
    /\ len(twin) > len(val)

====
